---- MODULE Spec2Model ----
(***************************************************************************)
(* Model of driver/server.go: the CloudServer lifecycle (Create, Destroy,  *)
(* InitializeByHostname, InitializeByID, SSH) of the Cloud.dk CSI driver.  *)
(* One caller owns one CloudServer; the control plane, the SSH dialer and  *)
(* the JSON decoder are inputs whose outcomes are chosen with \E.          *)
(* ConcSpec has a second caller of Create on the same CloudServer.         *)
(* Time is counted in milliseconds.                                        *)
(***************************************************************************)
EXTENDS Integers, Sequences, FiniteSets, TLC

VARIABLES
  Information,  \* s.Information (clouddk.ServerBody)
  pc,           \* position of the caller: "idle" or a point inside Create
  op,           \* the operation called last and its argument
  ret,          \* what the last finished operation returned
  log,          \* requests, dials and commands issued during the current call
  err,          \* the local err of Create
  sshClient,    \* the local sshClient of Create: "nil", "open", "closed"
  sshSession,   \* the local sshSession of Create: "nil", "open", "closed"
  timeElapsed,  \* the local timeElapsed of Create, in ms
  other         \* pc .. timeElapsed of a second caller, while it does not run

vars == <<Information, pc, op, ret, log, err, sshClient, sshSession, timeElapsed,
          other>>

----------------------------------------------------------------------------
(* Bounds of the model *)
MaxIfaces == 2      \* interfaces in a resource description
MaxDialTicks == 2   \* an ssh.Dial takes 0..MaxDialTicks poll intervals
MaxListLen == 2     \* entries of a server list answer

(* Constants of the program *)
timeDelay == 10          \* seconds
timeMax == 300           \* seconds
dialSleepMs == 1000      \* time.Sleep(1 * time.Second)
pollSleepMs == 200       \* time.Sleep(200 * time.Millisecond)

Ids == {"id1", "id2"}
Hostnames == {"h1", "h2"}
(* The address lists of an interface: without an address, or with one *)
AddrLists == {<<>>, <<"10.0.0.1">>}

SeqsUpTo(S, n) == UNION {[1..k -> S] : k \in 0..n}

Ifaces == [IPAddresses : AddrLists]
IfaceLists == SeqsUpTo(Ifaces, MaxIfaces)

(* clouddk.ServerBody{} *)
EmptyBody ==
  [Identifier |-> "", Hostname |-> "", NetworkInterfaces |-> <<>>, Booted |-> FALSE]

(* What the current call has asked of the control plane and of the server, *)
(* and what it was answered: post/get count requests, created is the       *)
(* identifier of the resource a POST created, del lists the DELETE         *)
(* requests with their answers, dials/sessions/cmds count ssh.Dial,        *)
(* NewSession and CombinedOutput calls and the ...Ok fields the ones that  *)
(* succeeded; answer is the answer to a GET request ("200", "404",         *)
(* "status" for another rejected status, "none" when no answer came), list *)
(* the identifiers and hostnames of a decoded server list, and lastDial    *)
(* the whole elapsed second in which the wait loop dialled last (-1: never)*)
EmptyLog ==
  [post |-> 0, created |-> "", get |-> 0, answer |-> "", list |-> <<>>,
   del |-> <<>>,
   dials |-> 0, dialsOk |-> 0, sessions |-> 0, sessionsOk |-> 0,
   cmds |-> 0, cmdsOk |-> 0, lastDial |-> -1]

NoRet == [err |-> "none", notFound |-> FALSE]

(* What a json Decode that fails with a type error may have stored: every   *)
(* field is either decoded or left as it was.                               *)
PartialBodies(old, body) ==
  {[Identifier |-> i, Hostname |-> h, NetworkInterfaces |-> n, Booted |-> b] :
     i \in {old.Identifier, body.Identifier},
     h \in {old.Hostname, body.Hostname},
     n \in {old.NetworkInterfaces, body.NetworkInterfaces},
     b \in {old.Booted, body.Booted}}

(* s.Information.NetworkInterfaces[0].IPAddresses[0] is in range *)
HasAddress(info) ==
  /\ Len(info.NetworkInterfaces) > 0
  /\ Len(info.NetworkInterfaces[1].IPAddresses) > 0

----------------------------------------------------------------------------
(* Variant: the precondition check never sees a bound Instance *)
Bound_Never(info) == FALSE

(* Variant: the precondition check takes every Instance for bound *)
Bound_Always(info) == TRUE

(* s.Information.Identifier != "" *)
Bound(info) == info.Identifier # ""

(* Variant: the argument validation is missing *)
EmptyArg_Never(a) == FALSE

(* hostname == "" / id == "" *)
EmptyArg(a) == a = ""

Init ==
  /\ Information = EmptyBody
  /\ pc = "idle"
  /\ op = [name |-> "none", arg |-> ""]
  /\ ret = NoRet
  /\ log = EmptyLog
  /\ err = "nil"
  /\ sshClient = "nil"
  /\ sshSession = "nil"
  /\ timeElapsed = 0
  /\ other = [pc |-> "idle", op |-> [name |-> "none", arg |-> ""], ret |-> NoRet,
              log |-> EmptyLog, err |-> "nil", sshClient |-> "nil",
              sshSession |-> "nil", timeElapsed |-> 0]

(* Variant: only a 200 answer counts as a successful deletion *)
Destroy_Only200(info, lg, answer) ==
  IF info.Identifier = ""
  THEN [info |-> info, err |-> "NotInitialized", log |-> lg]
  ELSE LET lg2 == [lg EXCEPT !.del =
                      Append(@, [target |-> info.Identifier, answer |-> answer])]
       IN IF answer = "200"
          THEN [info |-> EmptyBody, err |-> "nil", log |-> lg2]
          ELSE [info |-> info, err |-> "DeleteError", log |-> lg2]

(* Variant: the Instance is reset without a DELETE request *)
Destroy_NoRequest(info, lg, answer) ==
  IF info.Identifier = ""
  THEN [info |-> info, err |-> "NotInitialized", log |-> lg]
  ELSE [info |-> EmptyBody, err |-> "nil", log |-> lg]

(* Variant: a successful deletion does not reset the Instance *)
Destroy_NoReset(info, lg, answer) ==
  IF info.Identifier = ""
  THEN [info |-> info, err |-> "NotInitialized", log |-> lg]
  ELSE LET lg2 == [lg EXCEPT !.del =
                      Append(@, [target |-> info.Identifier, answer |-> answer])]
       IN IF answer \in {"200", "404"}
          THEN [info |-> info, err |-> "nil", log |-> lg2]
          ELSE [info |-> info, err |-> "DeleteError", log |-> lg2]

(* Destroy as a function of the Instance, the log and the answer of the    *)
(* DELETE request ("200", "404" or "fail" once the retries are exhausted). *)
Destroy(info, lg, answer) ==
  IF ~Bound(info)
  THEN [info |-> info, err |-> "NotInitialized", log |-> lg]
  ELSE LET lg2 == [lg EXCEPT !.del =
                      Append(@, [target |-> info.Identifier, answer |-> answer])]
       IN IF answer \in {"200", "404"}
          THEN [info |-> EmptyBody, err |-> "nil", log |-> lg2]
          ELSE [info |-> info, err |-> "DeleteError", log |-> lg2]

DeleteAnswers == {"200", "404", "fail"}

(* Variant: a failed rollback replaces the error that caused it *)
RollbackResult_Masked(e, destroyErr) ==
  IF destroyErr # "nil" THEN destroyErr ELSE e

(* s.Destroy(); return err -- what Destroy returns is dropped *)
RollbackResult(e, destroyErr) == e

(* Variant: the deferred Close calls are missing *)
Closed_Leak(h) == h

(* The deferred Close calls of Create, run when it returns *)
Closed(h) == IF h = "open" THEN "closed" ELSE h

(* Create returns e *)
CreateReturn(e) ==
  /\ pc' = "idle"
  /\ ret' = [err |-> e, notFound |-> FALSE]
  /\ sshClient' = Closed(sshClient)
  /\ sshSession' = Closed(sshSession)
  /\ timeElapsed' = 0
  /\ err' = "nil"

(* Create, lines 28-51: the precondition check and the request body *)
CreateEnter ==
  /\ pc = "idle"
  /\ UNCHANGED other
  /\ \E hostname \in Hostnames \cup {""} :
       op' = [name |-> "Create", arg |-> hostname]
  /\ log' = EmptyLog
  /\ IF Bound(Information)
     THEN /\ pc' = "idle"
          /\ ret' = [err |-> "AlreadyInitialized", notFound |-> FALSE]
          /\ UNCHANGED <<Information, err, sshClient, sshSession, timeElapsed>>
     ELSE /\ pc' = "c_post"
          /\ ret' = NoRet
          /\ err' = "nil"
          /\ sshClient' = "nil"
          /\ sshSession' = "nil"
          /\ timeElapsed' = 0
          /\ UNCHANGED Information

(* Resource descriptions the control plane answers a creation request with *)
CreatedBodies(hostname) ==
  [Identifier : Ids, Hostname : {hostname}, NetworkInterfaces : IfaceLists,
   Booted : {FALSE}]

(* Variant: s.Information is reset before the request is made *)
AfterFailedPost_Reset(info) == EmptyBody

(* Lines 53-59: the request failed; s.Information is reset only after a    *)
(* successful request, at line 61.                                         *)
AfterFailedPost(info) == info

(* Create, lines 53-66: the POST request and the decoding of its answer *)
CreatePost ==
  /\ pc = "c_post"
  /\ UNCHANGED other
  /\ UNCHANGED op
  /\ \/ /\ log' = [log EXCEPT !.post = @ + 1]
        /\ CreateReturn("TransportError")
        /\ Information' = AfterFailedPost(Information)
     \/ \E body \in CreatedBodies(op.arg) :
          /\ log' = [log EXCEPT !.post = @ + 1, !.created = body.Identifier]
          /\ \/ /\ Information' = body
                /\ pc' = "c_ifcheck"
                /\ UNCHANGED <<ret, err, sshClient, sshSession, timeElapsed>>
             \/ /\ Information' \in PartialBodies(EmptyBody, body)
                /\ CreateReturn("DecodeError")

(* Create, lines 68-94: the interface check and the start of the wait *)
CreateCheckInterfaces ==
  /\ pc = "c_ifcheck"
  /\ UNCHANGED other
  /\ UNCHANGED op
  /\ IF Len(Information.NetworkInterfaces) = 0
     THEN \E answer \in DeleteAnswers :
            LET d == Destroy(Information, log, answer)
            IN /\ Information' = d.info
               /\ log' = d.log
               /\ CreateReturn(RollbackResult("ProvisioningDefect", d.err))
     ELSE /\ pc' = "c_loop"
          /\ timeElapsed' = 0
          /\ err' = "nil"
          /\ UNCHANGED <<Information, ret, log, sshClient, sshSession>>

(* Variant: the loop body is never entered *)
LoopCond_Never(t) == FALSE

(* Variant: the budget test admits the instant the budget is used up *)
LoopCond_OffByOne(t) == t <= timeMax * 1000

(* timeElapsed.Seconds() < timeMax *)
LoopCond(t) == t < timeMax * 1000

DialDurations == {k * pollSleepMs : k \in 0..MaxDialTicks}

(* Variant: every iteration dials *)
DialDue_Always(t) == TRUE

(* int64(timeElapsed.Seconds()) % timeDelay == 0 *)
DialDue(t) == (t \div 1000) % timeDelay = 0

(* Create, lines 96-110: one iteration of the wait loop *)
CreateLoopIter ==
  /\ pc = "c_loop"
  /\ UNCHANGED other
  /\ LoopCond(timeElapsed)
  /\ UNCHANGED <<op, Information, sshSession>>
  /\ IF DialDue(timeElapsed)
     THEN IF ~HasAddress(Information)
          THEN /\ pc' = "panicked"
               /\ ret' = [err |-> "panic", notFound |-> FALSE]
               /\ UNCHANGED <<log, err, sshClient, timeElapsed>>
          ELSE /\ UNCHANGED ret
               /\ \/ /\ log' = [log EXCEPT !.dials = @ + 1, !.dialsOk = @ + 1,
                                           !.lastDial = timeElapsed \div 1000]
                     /\ sshClient' = "open"
                     /\ err' = "nil"
                     /\ pc' = "c_afterloop"
                     /\ UNCHANGED timeElapsed
                  \/ \E d \in DialDurations :
                       /\ log' = [log EXCEPT !.dials = @ + 1,
                                             !.lastDial = timeElapsed \div 1000]
                       /\ sshClient' = "nil"
                       /\ err' = "DialError"
                       /\ timeElapsed' = timeElapsed + d + dialSleepMs + pollSleepMs
                       /\ pc' = "c_loop"
     ELSE /\ timeElapsed' = timeElapsed + pollSleepMs
          /\ UNCHANGED <<pc, ret, log, err, sshClient>>

(* Create, line 96: the loop condition fails *)
CreateLoopExit ==
  /\ pc = "c_loop"
  /\ UNCHANGED other
  /\ ~LoopCond(timeElapsed)
  /\ pc' = "c_afterloop"
  /\ UNCHANGED <<Information, op, ret, log, err, sshClient, sshSession, timeElapsed>>

(* Variant: the flag is not set *)
MarkBooted_Skip(info) == info

(* s.Information.Booted = true *)
MarkBooted(info) == [info EXCEPT !.Booted = TRUE]

(* Create, lines 112-122 *)
CreateAfterLoop ==
  /\ pc = "c_afterloop"
  /\ UNCHANGED other
  /\ UNCHANGED op
  /\ IF err # "nil"
     THEN \E answer \in DeleteAnswers :
            LET d == Destroy(Information, log, answer)
            IN /\ Information' = d.info
               /\ log' = d.log
               /\ CreateReturn(RollbackResult(err, d.err))
     ELSE /\ Information' = MarkBooted(Information)
          /\ pc' = "c_session"
          /\ UNCHANGED <<ret, log, err, sshClient, sshSession, timeElapsed>>

(* Create, lines 125-135: sshClient.NewSession() *)
CreateNewSession ==
  /\ pc = "c_session"
  /\ UNCHANGED other
  /\ UNCHANGED op
  /\ \/ /\ sshSession' = "open"
        /\ pc' = "c_bootstrap"
        /\ log' = [log EXCEPT !.sessions = @ + 1, !.sessionsOk = @ + 1]
        /\ UNCHANGED <<Information, ret, err, sshClient, timeElapsed>>
     \/ \E answer \in DeleteAnswers :
          LET d == Destroy(Information, [log EXCEPT !.sessions = @ + 1], answer)
          IN /\ Information' = d.info
             /\ log' = d.log
             /\ CreateReturn(RollbackResult("SessionError", d.err))

(* Create, lines 137-154: the bootstrap command *)
CreateBootstrap ==
  /\ pc = "c_bootstrap"
  /\ UNCHANGED other
  /\ UNCHANGED op
  /\ LET lg == [log EXCEPT !.cmds = @ + 1]
     IN \/ /\ log' = [lg EXCEPT !.cmdsOk = @ + 1]
           /\ CreateReturn("nil")
           /\ UNCHANGED Information
        \/ \E answer \in DeleteAnswers :
             LET d == Destroy(Information, lg, answer)
             IN /\ Information' = d.info
                /\ log' = d.log
                /\ CreateReturn(RollbackResult("BootstrapError", d.err))

(* An operation that is a single step returns e; the locals of an earlier  *)
(* Create no longer exist.                                                 *)
Return(e, nf) ==
  /\ pc' = "idle"
  /\ ret' = [err |-> e, notFound |-> nf]
  /\ err' = "nil"
  /\ sshClient' = "nil"
  /\ sshSession' = "nil"
  /\ timeElapsed' = 0

(* Destroy called by the owner of the Instance, lines 158-184 *)
DestroyOp ==
  /\ pc = "idle"
  /\ UNCHANGED other
  /\ op' = [name |-> "Destroy", arg |-> ""]
  /\ \E answer \in DeleteAnswers :
       LET d == Destroy(Information, EmptyLog, answer)
       IN /\ Information' = d.info
          /\ log' = d.log
          /\ Return(d.err, FALSE)

(* Resource descriptions of existing servers *)
ListBodies ==
  [Identifier : Ids, Hostname : Hostnames,
   NetworkInterfaces : {<<>>, <<[IPAddresses |-> <<"10.0.0.1">>]>>},
   Booted : {TRUE}]

ServerLists == SeqsUpTo(ListBodies, MaxListLen)

(* The identifiers and hostnames of a server list, in its order *)
Listed(servers) ==
  [i \in 1..Len(servers) |->
     [Identifier |-> servers[i].Identifier, Hostname |-> servers[i].Hostname]]

(* for _, v := range servers { if v.Hostname == hostname ... } *)
Matches(servers, hostname) ==
  {i \in 1..Len(servers) : servers[i].Hostname = hostname}

FirstMatch(servers, hostname) ==
  CHOOSE i \in Matches(servers, hostname) :
    \A j \in Matches(servers, hostname) : i <= j

(* InitializeByHostname, lines 200-239 *)
InitializeByHostname ==
  /\ pc = "idle"
  /\ UNCHANGED other
  /\ \E hostname \in Hostnames \cup {""} :
       /\ op' = [name |-> "InitializeByHostname", arg |-> hostname]
       /\ IF Bound(Information)
          THEN /\ Return("AlreadyInitialized", FALSE)
               /\ log' = EmptyLog
               /\ UNCHANGED Information
          ELSE IF EmptyArg(hostname)
          THEN /\ Return("InvalidArgument", FALSE)
               /\ log' = EmptyLog
               /\ UNCHANGED Information
          ELSE \/ \E a \in {"404", "status", "none"} :
                    /\ log' = [EmptyLog EXCEPT !.get = 1, !.answer = a]
                    /\ Return("TransportError", FALSE)
                    /\ UNCHANGED Information
               \/ /\ log' = [EmptyLog EXCEPT !.get = 1, !.answer = "200"]
                  /\ Return("DecodeError", FALSE)
                  /\ UNCHANGED Information
               \/ \E servers \in ServerLists :
                    /\ log' = [EmptyLog EXCEPT !.get = 1, !.answer = "200",
                                               !.list = Listed(servers)]
                    /\ IF Matches(servers, hostname) # {}
                       THEN /\ Information' = servers[FirstMatch(servers, hostname)]
                            /\ Return("nil", FALSE)
                       ELSE /\ Return("NotFoundError", TRUE)
                            /\ UNCHANGED Information

(* The resource description the control plane answers a fetch of id with *)
FetchedBodies(id) ==
  [Identifier : {id}, Hostname : Hostnames, NetworkInterfaces : IfaceLists,
   Booted : BOOLEAN]

(* InitializeByID, lines 242-272.  A request that fails is answered with a *)
(* status (404 or another rejected one) or not at all; with no answer the  *)
(* read of res.StatusCode at line 262 has a response to read or has none.  *)
InitializeByID ==
  /\ pc = "idle"
  /\ UNCHANGED other
  /\ \E id \in Ids \cup {""} :
       /\ op' = [name |-> "InitializeByID", arg |-> id]
       /\ IF Bound(Information)
          THEN /\ Return("AlreadyInitialized", FALSE)
               /\ log' = EmptyLog
               /\ UNCHANGED Information
          ELSE IF EmptyArg(id)
          THEN /\ Return("InvalidArgument", FALSE)
               /\ log' = EmptyLog
               /\ UNCHANGED Information
          ELSE \/ /\ log' = [EmptyLog EXCEPT !.get = 1, !.answer = "404"]
                  /\ Return("StatusError", TRUE)
                  /\ UNCHANGED Information
               \/ /\ log' = [EmptyLog EXCEPT !.get = 1, !.answer = "status"]
                  /\ Return("StatusError", FALSE)
                  /\ UNCHANGED Information
               \/ /\ log' = [EmptyLog EXCEPT !.get = 1, !.answer = "none"]
                  /\ \/ /\ Return("TransportError", FALSE)   \* res kept
                        /\ UNCHANGED Information
                     \/ /\ pc' = "panicked"                  \* res nil
                        /\ ret' = [err |-> "panic", notFound |-> FALSE]
                        /\ UNCHANGED <<Information, err, sshClient,
                                       sshSession, timeElapsed>>
               \/ \E body \in FetchedBodies(id) :
                    /\ log' = [EmptyLog EXCEPT !.get = 1, !.answer = "200"]
                    /\ \/ /\ Information' = body
                          /\ Return("nil", FALSE)
                       \/ /\ Information' \in PartialBodies(Information, body)
                          /\ Return("DecodeError", FALSE)

(* SSH, lines 275-300 *)
SSH ==
  /\ pc = "idle"
  /\ UNCHANGED other
  /\ op' = [name |-> "SSH", arg |-> ""]
  /\ UNCHANGED Information
  /\ IF ~Bound(Information)
     THEN /\ Return("NotInitialized", FALSE)
          /\ log' = EmptyLog
     ELSE \/ /\ Return("KeyParseError", FALSE)
             /\ log' = EmptyLog
          \/ IF ~HasAddress(Information)
             THEN /\ pc' = "panicked"
                  /\ ret' = [err |-> "panic", notFound |-> FALSE]
                  /\ log' = EmptyLog
                  /\ UNCHANGED <<err, sshClient, sshSession, timeElapsed>>
             ELSE \/ /\ log' = [EmptyLog EXCEPT !.dials = 1, !.dialsOk = 1]
                     /\ Return("nil", FALSE)
                  \/ /\ log' = [EmptyLog EXCEPT !.dials = 1]
                     /\ Return("DialError", FALSE)

Next ==
  \/ CreateEnter
  \/ CreatePost
  \/ CreateCheckInterfaces
  \/ CreateLoopIter
  \/ CreateLoopExit
  \/ CreateAfterLoop
  \/ CreateNewSession
  \/ CreateBootstrap
  \/ DestroyOp
  \/ InitializeByHostname
  \/ InitializeByID
  \/ SSH

Spec == Init /\ [][Next]_vars

(* Two callers on one CloudServer.  The caller that runs hands over to the *)
(* other one: the locals of the two calls change places, s.Information is  *)
(* shared.  The hand-over is taken where the race is, between the          *)
(* precondition check (line 29) and the use of the decoded answer (line    *)
(* 68); a caller that has got further runs on to its return.               *)
Switch ==
  /\ pc \in {"c_post", "c_ifcheck"}
  /\ pc' = other.pc
  /\ op' = other.op
  /\ ret' = other.ret
  /\ log' = other.log
  /\ err' = other.err
  /\ sshClient' = other.sshClient
  /\ sshSession' = other.sshSession
  /\ timeElapsed' = other.timeElapsed
  /\ other' = [pc |-> pc, op |-> op, ret |-> ret, log |-> log, err |-> err,
               sshClient |-> sshClient, sshSession |-> sshSession,
               timeElapsed |-> timeElapsed]
  /\ UNCHANGED Information

(* The one Create call of a caller *)
ConcCreateEnter == op.name = "none" /\ CreateEnter

ConcNext ==
  \/ ConcCreateEnter
  \/ CreatePost
  \/ CreateCheckInterfaces
  \/ CreateLoopIter
  \/ CreateLoopExit
  \/ CreateAfterLoop
  \/ CreateNewSession
  \/ CreateBootstrap
  \/ Switch

(* Two Create calls on one unbound CloudServer, interleaved *)
ConcSpec == Init /\ [][ConcNext]_vars

TypeOK ==
  /\ pc \in {"idle", "c_post", "c_ifcheck", "c_loop", "c_afterloop",
             "c_session", "c_bootstrap", "panicked"}
  /\ sshClient \in {"nil", "open", "closed"}
  /\ sshSession \in {"nil", "open", "closed"}
  /\ timeElapsed \in Nat
  /\ Information.Booted \in BOOLEAN

(* The wait loop and the steps of Create are taken as long as they can be: *)
(* the caller's thread keeps running.                                      *)
FairSpec ==
  /\ Spec
  /\ WF_vars(CreateLoopIter)
  /\ WF_vars(CreateLoopExit)

----------------------------------------------------------------------------
(* Properties *)

(* Create has returned *)
CreateDone == pc = "idle" /\ op.name = "Create"

(* Create was called on an unbound Instance and has returned an error *)
CreateFailed ==
  CreateDone /\ ret.err \notin {"nil", "AlreadyInitialized"}

(* Every DELETE request of the current call was answered 200 or 404 *)
DeletesSucceeded ==
  \A i \in 1..Len(log.del) : log.del[i].answer \in {"200", "404"}

(* C1: when a Create called on an unbound Instance returns an error, the   *)
(* Instance is unbound, whichever step failed and whatever the compensating*)
(* delete answered.                                                        *)
C1_FailedCreateLeavesUnbound ==
  CreateFailed => Information.Identifier = ""

(* C2: when the creation request succeeded and Create returns an error, a  *)
(* deletion request was issued before Create returned, also when the       *)
(* failure is the decoding of the creation response.                       *)
C2_FailureAfterCreationDeletes ==
  (CreateFailed /\ log.created # "") => Len(log.del) >= 1

(* C3: if the decoded resource has no network interface, Create returns the*)
(* provisioning defect without a dial or a bootstrap command, and issues   *)
(* exactly one delete request, for the identifier of the created resource. *)
C3_NoInterfacesRollsBack ==
  [][(pc = "c_ifcheck" /\ Len(Information.NetworkInterfaces) = 0)
       => /\ pc' = "idle"
          /\ ret'.err = "ProvisioningDefect"
          /\ log'.dials = 0
          /\ log'.sessions = 0
          /\ log'.cmds = 0
          /\ Len(log'.del) = 1
          /\ log'.del[1].target = log.created
          /\ log.created = Information.Identifier]_vars

C3_Witness ==
  /\ CreateDone
  /\ ret.err = "ProvisioningDefect"
  /\ Len(log.del) = 1
  /\ log.del[1].target = log.created

(* C4: on a bound Instance, Create, InitializeByHostname and InitializeByID*)
(* fail with AlreadyInitialized for any argument, issue no request and no  *)
(* dial, and change no field of the Instance.                              *)
C4_BoundRejectsInitialisation ==
  [][(/\ pc = "idle"
      /\ Information.Identifier # ""
      /\ op'.name \in {"Create", "InitializeByHostname", "InitializeByID"})
       => /\ pc' = "idle"
          /\ ret' = [err |-> "AlreadyInitialized", notFound |-> FALSE]
          /\ log' = EmptyLog
          /\ Information' = Information]_vars

C4_Witness ==
  /\ pc = "idle"
  /\ op = [name |-> "InitializeByID", arg |-> ""]
  /\ ret.err = "AlreadyInitialized"
  /\ Information.Identifier # ""

(* C5: on an unbound Instance, Destroy and SSH fail with NotInitialized,   *)
(* issue no delete request and no dial, and leave the Instance unbound.    *)
C5_UnboundRejectsDestroyAndSSH ==
  [][(/\ pc = "idle"
      /\ Information.Identifier = ""
      /\ op'.name \in {"Destroy", "SSH"})
       => /\ pc' = "idle"
          /\ ret'.err = "NotInitialized"
          /\ log' = EmptyLog
          /\ Information' = Information]_vars

C5_Witness ==
  /\ pc = "idle"
  /\ op.name = "Destroy"
  /\ ret.err = "NotInitialized"
  /\ Information.Identifier = ""
  /\ log.del = <<>>

(* C6: on an unbound Instance, InitializeByHostname("") and                *)
(* InitializeByID("") fail with InvalidArgument and notFound = false, issue*)
(* no control-plane request, and leave the Instance unbound.               *)
C6_EmptyArgumentRejected ==
  [][(/\ pc = "idle"
      /\ Information.Identifier = ""
      /\ op'.name \in {"InitializeByHostname", "InitializeByID"}
      /\ op'.arg = "")
       => /\ pc' = "idle"
          /\ ret' = [err |-> "InvalidArgument", notFound |-> FALSE]
          /\ log' = EmptyLog
          /\ Information' = Information]_vars

C6_Witness ==
  /\ pc = "idle"
  /\ op = [name |-> "InitializeByHostname", arg |-> ""]
  /\ ret.err = "InvalidArgument"
  /\ Information.Identifier = ""
  /\ log.get = 0

(* C7: Destroy on a bound Instance issues one delete request; it returns   *)
(* success and resets the Instance to the empty value exactly when the     *)
(* request is answered 200 or 404, and otherwise returns the error and     *)
(* leaves the Instance as it was.                                          *)
C7_DestroyIdempotentDelete ==
  [][(/\ pc = "idle"
      /\ Information.Identifier # ""
      /\ op'.name = "Destroy")
       => /\ pc' = "idle"
          /\ Len(log'.del) = 1
          /\ log'.del[1].target = Information.Identifier
          /\ IF log'.del[1].answer \in {"200", "404"}
             THEN ret'.err = "nil" /\ Information' = EmptyBody
             ELSE ret'.err = "DeleteError" /\ Information' = Information]_vars

C7_Witness ==
  /\ pc = "idle"
  /\ op.name = "Destroy"
  /\ Len(log.del) = 1
  /\ log.del[1].answer = "404"
  /\ ret.err = "nil"
  /\ Information = EmptyBody

(* C8: when the creation request, a dial, the session open and the         *)
(* bootstrap command of a Create succeed, Create returns success, the      *)
(* Instance is bound to the returned identifier with the booted flag set,  *)
(* and no delete request was issued during the call.                       *)
C8_CreateSuccess ==
  (/\ CreateDone
   /\ log.created # ""
   /\ log.dialsOk >= 1
   /\ log.sessionsOk >= 1
   /\ log.cmdsOk >= 1)
    => /\ ret.err = "nil"
       /\ Information.Identifier = log.created
       /\ Information.Booted
       /\ HasAddress(Information)
       /\ log.del = <<>>

C8_Witness ==
  /\ CreateDone
  /\ log.cmdsOk = 1
  /\ ret.err = "nil"
  /\ Information.Identifier = log.created
  /\ Information.Booted

(* C9: when the creation succeeded, every dial of the wait failed and the  *)
(* delete request succeeds, Create returns the last dial error (the        *)
(* readiness timeout), has issued exactly one delete request and no        *)
(* bootstrap command, and the Instance ends unbound.                       *)
C9_ReadinessTimeoutRollsBack ==
  (/\ CreateDone
   /\ log.dials >= 1
   /\ log.dialsOk = 0
   /\ DeletesSucceeded)
    => /\ ret.err = "DialError"
       /\ Len(log.del) = 1
       /\ log.del[1].target = log.created
       /\ log.sessions = 0
       /\ log.cmds = 0
       /\ Information = EmptyBody

C9_Witness ==
  /\ CreateDone
  /\ log.dials >= 1
  /\ log.dialsOk = 0
  /\ Len(log.del) = 1
  /\ log.del[1].answer = "200"
  /\ ret.err = "DialError"
  /\ Information.Identifier = ""

(* The longest an ssh.Dial of the model takes, in ms *)
MaxDialMs == MaxDialTicks * pollSleepMs

(* C10: the wait loop of Create keeps to its budget of 300 seconds: no dial*)
(* is started once the elapsed time is 300 seconds or more, the elapsed    *)
(* time grows with every iteration, a wait whose dials all fail ends with  *)
(* the elapsed time at 300 seconds plus at most the last iteration, and the*)
(* loop is always left.                                                    *)
C10_ReadinessBudget ==
  /\ [](pc = "c_loop" => timeElapsed < timeMax * 1000 + dialSleepMs + pollSleepMs + MaxDialMs)
  /\ []((pc = "c_afterloop" /\ err # "nil")
          => /\ timeElapsed >= timeMax * 1000
             /\ timeElapsed < timeMax * 1000 + dialSleepMs + pollSleepMs + MaxDialMs
             /\ log.dialsOk = 0)
  /\ [][(pc = "c_loop" /\ log'.dials > log.dials) => timeElapsed < timeMax * 1000]_vars
  /\ [][(pc = "c_loop" /\ pc' = "c_loop") => timeElapsed' >= timeElapsed + pollSleepMs]_vars
  /\ ((pc = "c_loop") ~> (pc # "c_loop"))

C10_Witness ==
  /\ pc = "c_afterloop"
  /\ err = "DialError"
  /\ timeElapsed >= timeMax * 1000
  /\ log.dials >= 2

(* The entries of the decoded list whose hostname is the argument *)
ListedMatches == {i \in 1..Len(log.list) : log.list[i].Hostname = op.arg}

(* C11: after a lookup request, InitializeByHostname and InitializeByID    *)
(* have returned; notFound is true exactly when the resource does not      *)
(* exist (no list entry with the hostname, a 404 answer to the fetch) and  *)
(* false, with an error, for every transport failure, other rejected status*)
(* and decoding failure; a success has no error, notFound false and the    *)
(* Instance bound, for a hostname to the first entry with that hostname.   *)
C11_NotFoundSignal ==
  /\ (op.name = "InitializeByID" /\ log.get = 1)
       => /\ pc = "idle"
          /\ ret.notFound <=> (log.answer = "404")
          /\ (log.answer # "200") => ret.err # "nil"
          /\ (ret.err = "nil") => /\ ~ret.notFound
                                  /\ Information.Identifier = op.arg
  /\ (op.name = "InitializeByHostname" /\ log.get = 1)
       => /\ pc = "idle"
          /\ ret.notFound <=>
               (log.answer = "200" /\ ret.err # "DecodeError" /\ ListedMatches = {})
          /\ (log.answer # "200") => ret.err # "nil"
          /\ (ret.err = "nil")
               => /\ ~ret.notFound
                  /\ ListedMatches # {}
                  /\ \E i \in ListedMatches :
                       /\ \A j \in ListedMatches : i <= j
                       /\ Information.Identifier = log.list[i].Identifier
                  /\ Information.Hostname = op.arg
                  /\ Information.Identifier # ""

(* The error of the step of Create that failed last, read off the log *)
OriginalError ==
  IF log.cmds >= 1 THEN "BootstrapError"
  ELSE IF log.sessions >= 1 THEN "SessionError"
  ELSE IF log.dials >= 1 THEN "DialError"
  ELSE "ProvisioningDefect"

(* C12: when the compensating Destroy of a failing Create fails too, Create*)
(* returns the error that caused the rollback, not the error of Destroy,   *)
(* and has issued no delete request beyond that one Destroy call.          *)
C12_RollbackKeepsOriginalError ==
  (/\ CreateDone
   /\ \E i \in 1..Len(log.del) : log.del[i].answer \notin {"200", "404"})
    => /\ ret.err = OriginalError
       /\ ret.err # "DeleteError"
       /\ Len(log.del) = 1
       /\ log.cmdsOk = 0
       /\ Information.Identifier = log.del[1].target

C12_Witness ==
  /\ CreateDone
  /\ Len(log.del) = 1
  /\ log.del[1].answer = "fail"
  /\ ret.err = "SessionError"

(* C13: an Instance populated by Create has the booted flag set only if the*)
(* bootstrap command of that Create has completed successfully, inside     *)
(* Create and after it.                                                    *)
C13_BootedOnlyAfterBootstrap ==
  (/\ op.name = "Create"
   /\ log.created # ""
   /\ Information.Booted)
    => log.cmdsOk >= 1

(* C14: when Create has returned, the connection of its successful dial and*)
(* the session opened on it are closed, on every exit path; nothing Create *)
(* opened is still open.                                                   *)
C14_SessionsReleased ==
  /\ (pc \in {"idle", "panicked"}) => (sshClient # "open" /\ sshSession # "open")
  /\ CreateDone
       => /\ log.dialsOk <= 1
          /\ log.sessionsOk <= 1
          /\ (log.dialsOk = 1) => sshClient = "closed"
          /\ (log.sessionsOk = 1) => sshSession = "closed"

C14_Witness ==
  /\ CreateDone
  /\ ret.err = "BootstrapError"
  /\ Len(log.del) = 1
  /\ log.del[1].answer = "fail"
  /\ sshClient = "closed"
  /\ sshSession = "closed"

(* A step of the wait loop that dials *)
LoopDials == pc = "c_loop" /\ log'.dials > log.dials

(* C15: the wait loop dials only when the whole number of elapsed seconds  *)
(* is a multiple of 10, and at most once in a tick: a failed attempt is    *)
(* followed by at least 1.2 s of sleep, so the next iteration is in a later*)
(* second and the next dial at least 10 whole seconds after the last;      *)
(* an iteration without a dial sleeps 200 ms.                              *)
C15_OneDialPerTick ==
  /\ [][LoopDials => (timeElapsed \div 1000) % timeDelay = 0]_vars
  /\ [][(LoopDials /\ log.lastDial # -1)
          => timeElapsed \div 1000 >= log.lastDial + timeDelay]_vars
  /\ [][(LoopDials /\ pc' = "c_loop")
          => /\ timeElapsed' >= timeElapsed + dialSleepMs + pollSleepMs
             /\ timeElapsed' \div 1000 > timeElapsed \div 1000]_vars
  /\ [][(pc = "c_loop" /\ pc' = "c_loop" /\ ~LoopDials)
          => timeElapsed' = timeElapsed + pollSleepMs]_vars

C15_Witness ==
  /\ pc = "c_loop"
  /\ log.dials = 2
  /\ log.lastDial = timeDelay
  /\ timeElapsed \div 1000 = timeDelay + 5

(* C17: whenever Create or SSH dials, the address it reads exists: the     *)
(* Instance has a first interface with a first address, for every resource *)
(* description the control plane can return.                               *)
C17_DialAddressExists ==
  /\ (pc = "c_loop" /\ timeElapsed = 0)
       => /\ Len(Information.NetworkInterfaces) > 0
          /\ Len(Information.NetworkInterfaces[1].IPAddresses) > 0
  /\ pc # "panicked" \/ op.name \notin {"Create", "SSH"}

(* C18: the wait loop starts at elapsed time 0 and dials in its first      *)
(* iteration; when the loop is left at least one dial was made and the     *)
(* connection is present exactly when the recorded error is absent; Create *)
(* goes on to the session and the bootstrap only with an open connection.  *)
C18_HandleIffNoError ==
  /\ (pc = "c_loop" /\ log.dials = 0) => timeElapsed = 0
  /\ (pc = "c_afterloop")
       => /\ log.dials >= 1
          /\ (sshClient = "open") <=> (err = "nil")
          /\ (sshClient = "open") <=> (log.dialsOk = 1)
  /\ (pc \in {"c_session", "c_bootstrap"}) => (sshClient = "open" /\ err = "nil")

C18_Witness ==
  /\ pc = "c_afterloop"
  /\ sshClient = "open"
  /\ err = "nil"
  /\ log.dials = 3

(* C19: when the creation request fails, Create returns that error, has    *)
(* issued one creation request, no delete request and no dial, and the     *)
(* Instance is exactly as it was, unbound; no Create call issues a second  *)
(* creation request.                                                       *)
C19_FailedPostChangesNothing ==
  /\ [](log.post <= 1)
  /\ [][(pc = "c_post" /\ log'.created = "")
          => /\ pc' = "idle"
             /\ ret' = [err |-> "TransportError", notFound |-> FALSE]
             /\ Information' = Information
             /\ Information'.Identifier = ""
             /\ log'.post = 1
             /\ log'.del = <<>>
             /\ log'.dials = 0]_vars

C19_Witness ==
  /\ CreateDone
  /\ ret.err = "TransportError"
  /\ log.post = 1
  /\ log.del = <<>>
  /\ Information.Identifier = ""
  /\ Information.Hostname # ""

(* C16: the precondition check is the only guard and is not atomic with    *)
(* what it guards: a caller gets past it exactly when the Instance is      *)
(* unbound at that moment, so two interleaved Create calls can both pass   *)
(* and both create a resource, of which the Instance references at most    *)
(* one; each Create call issues at most one creation request.              *)
C16_CheckIsOnlyGuard ==
  /\ [][(pc = "idle" /\ pc' = "c_post") => Information.Identifier = ""]_vars
  /\ [][(pc = "idle" /\ op'.name = "Create" /\ Information.Identifier = "")
          => pc' = "c_post"]_vars
  /\ [](log.post <= 1 /\ other.log.post <= 1)
  /\ []((log.created # "" /\ other.log.created # ""
         /\ log.created # other.log.created)
          => \E id \in {log.created, other.log.created} :
               Information.Identifier # id)

(* Both callers passed the check and created a resource each; one Create   *)
(* has returned success, the Instance references its resource and the      *)
(* resource of the other call is referenced by nothing.                    *)
C16_Witness ==
  /\ op.name = "Create"
  /\ other.op.name = "Create"
  /\ log.post = 1
  /\ other.log.post = 1
  /\ log.created = "id1"
  /\ other.log.created = "id2"
  /\ pc = "idle"
  /\ ret.err = "nil"
  /\ Information.Identifier = "id1"
  /\ other.pc = "c_ifcheck"

====
